---- MODULE Spec2Model ----
(***************************************************************************)
(* The resumable scraper of claude_scraper: StateManager (the Session      *)
(* Store, src/state_manager.py) and FacebookScraper (the orchestrator,     *)
(* src/scraper.py), as given in the implementation guide.                  *)
(*                                                                         *)
(* The specifications share the variables:                                 *)
(*   Spec       one scraper process at a time, with kills and restarts     *)
(*   SpecConc   two scraper processes sharing one state file               *)
(*   SpecStore  a client that calls the StateManager methods directly      *)
(*   SpecRetry  a caller of retry_on_error                                 *)
(*   SpecPage   runs over a page of every kind of article element          *)
(*   SpecFault  runs with a logout or a failing save()                     *)
(*   SpecShare  two scraper processes, one of them started a second time   *)
(*   SpecLive   runs left alone until run() returns, with fairness         *)
(***************************************************************************)
EXTENDS Integers, Sequences, FiniteSets, TLC

\* ---------------------------------------------------------------- bounds
MaxItem == 2      \* post ids are 1..MaxItem
MaxFeed == 2      \* posts the group feed holds
MaxTime == 1      \* the clock (seconds) runs 0..MaxTime
MaxRuns == 2      \* scraper processes started
MaxTarget == 2    \* scraper.max_posts_per_run is drawn from 1..MaxTarget
MaxCalls == 4     \* calls the direct client makes
MaxText == 1      \* distinct non-empty text blocks
PageLen == 3      \* article elements of the feed with mixed elements

Procs == {1, 2}
Items == 1 .. MaxItem
None == -1        \* Python None (end_time, self.session_id)
Statuses == {"completed", "failed", "interrupted"}

VARIABLES
    state_file,        \* the JSON document at StateManager.state_file
    state,             \* state[p]: StateManager.state of process p
    session_id,        \* session_id[p]: FacebookScraper.session_id
    pc,                \* pc[p]: where process p stands in run()
    page,              \* page[p]: number of feed posts loaded in the page
    idx,               \* idx[p]: position of the for loop in posts
    processed_count,   \* processed_count[p]: local of _scrape_loop
    now,               \* datetime.now(), in seconds
    feed,              \* the article elements of the group feed, in page order
    max_posts,         \* config.max_posts
    runs,              \* scraper processes started so far
    calls,             \* calls made by the direct client
    sink,              \* sink[i]: successful _save_post calls for post id i
    log,               \* log[p]: what the latest run of p did so far
    history_at_start,  \* history_at_start[p]: ids in the file when p's latest run loaded it
    marked,            \* ids for which mark_processed has returned
    last_call,         \* the StateManager call that returned last
    retry,             \* the frame of a retry_on_error call
    extracted          \* every (article element, post id) pair _extract_post_id produced

vars == << state_file, state, session_id, pc, page, idx, processed_count, now,
           feed, max_posts, runs, calls, sink, log,
           history_at_start, marked, last_call, retry, extracted >>

\* ----------------------------------------------------------- PostExtractor
\* the text block of an article element; 0 is the "" that _extract_text
\* returns when no selector matches
Texts == 0 .. MaxText

\* the first a[href*="/posts/"] of an article element: absent, or present
\* with the digits that follow "/posts/" in its href (none when the href
\* goes on with something else, as in /posts/pfbid...)
NoLink == [ present |-> FALSE, digits |-> << >> ]
Links == { NoLink } \cup
         [ present : { TRUE }, digits : { << >> } \cup { << d >> : d \in Items } ]

Elements == [ link : Links, text : Texts ]

\* an article element whose link carries the post id i
Post(i) == [ link |-> [ present |-> TRUE, digits |-> << i >> ],
             text |-> 1 ]
LinkedPosts == { Post(i) : i \in Items }

\* _extract_text: the inner text of the first selector that matches
_extract_text(element) == element.text

\* a digest that changes with every process start (the builtin hash() of str)
md5_16_salted(text) == MaxItem + 1 + ((text + runs) % (MaxText + 1))

\* hashlib.md5(text.encode()).hexdigest()[:16]: one value per text, none of
\* them a post id taken from a link
md5_16(text) == MaxItem + 1 + text

\* re.search(r'/posts/(\d+)', href).group(1) when the link is there and the
\* pattern matches, else the digest of the text
_extract_post_id(element) ==
    IF element.link.present /\ Len(element.link.digits) > 0
    THEN element.link.digits[1]
    ELSE md5_16(_extract_text(element))

\* every value _extract_post_id can return
PostIds == Items \cup { md5_16(t) : t \in Texts }

\* ------------------------------------------------------------ StateManager
EmptyState ==
    [ sessions |-> << >>, processed_post_ids |-> << >>, total_all_time |-> 0 ]

NoFile == [ exists |-> FALSE, valid |-> TRUE, doc |-> EmptyState ]

\* the file after open(..., 'w') truncated it and before json.dump completed
Truncated == [ exists |-> TRUE, valid |-> FALSE, doc |-> EmptyState ]

\* a loader that starts from an empty state whatever the file holds
_load_or_create_fresh(f) == EmptyState

_load_or_create(f) == IF f.exists THEN f.doc ELSE EmptyState

\* a save that leaves the write to a later batch (architecture 8.2)
save_deferred(st, f) == f

save(st, f) == [ exists |-> TRUE, valid |-> TRUE, doc |-> st ]

\* index of the first session with this id, 0 when there is none
FirstMatch(sessions, sid) ==
    IF \E i \in DOMAIN sessions : sessions[i].session_id = sid
    THEN CHOOSE i \in DOMAIN sessions :
            /\ sessions[i].session_id = sid
            /\ \A j \in 1 .. (i - 1) : sessions[j].session_id # sid
    ELSE 0

start_session(st, f, t) ==
    LET session == [ session_id |-> t, start_time |-> t, end_time |-> None,
                     status |-> "running", total_processed |-> 0,
                     total_failed |-> 0 ]
        st2 == [ st EXCEPT !.sessions = Append(@, session) ]
    IN  [ state |-> st2, file |-> save(st2, f), result |-> t ]

\* end_session that closes the latest session when no session has the id
end_session_latest(st, f, sid, status, t) ==
    LET m == FirstMatch(st.sessions, sid)
        i == IF m = 0 THEN Len(st.sessions) ELSE m
        st2 == IF i = 0 THEN st
               ELSE [ st EXCEPT !.sessions[i].end_time = t,
                                !.sessions[i].status = status ]
    IN  [ state |-> st2, file |-> save(st2, f) ]

\* end_session that sets the status and leaves end_time as it is
end_session_untimed(st, f, sid, status, t) ==
    LET i == FirstMatch(st.sessions, sid)
        st2 == IF i = 0 THEN st
               ELSE [ st EXCEPT !.sessions[i].status = status ]
    IN  [ state |-> st2, file |-> save(st2, f) ]

end_session(st, f, sid, status, t) ==
    LET i == FirstMatch(st.sessions, sid)
        st2 == IF i = 0 THEN st
               ELSE [ st EXCEPT !.sessions[i].end_time = t,
                                !.sessions[i].status = status ]
    IN  [ state |-> st2, file |-> save(st2, f) ]

\* a duplicate test that looks at the latest record only
is_processed_latest(st, post_id) ==
    /\ Len(st.processed_post_ids) > 0
    /\ st.processed_post_ids[Len(st.processed_post_ids)].id = post_id

\* a duplicate test that never finds the id
is_processed_never(st, post_id) == FALSE

is_processed(st, post_id) ==
    \E i \in DOMAIN st.processed_post_ids : st.processed_post_ids[i].id = post_id

\* mark_processed without its final self.save()
mark_processed_unsaved(st, f, post_id, sid, t) ==
    IF ~ is_processed(st, post_id)
    THEN LET i == FirstMatch(st.sessions, sid)
             st1 == [ st EXCEPT
                        !.processed_post_ids =
                            Append(@, [ id |-> post_id, processed_at |-> t,
                                        session_id |-> sid ]),
                        !.total_all_time = @ + 1 ]
             st2 == IF i = 0 THEN st1
                    ELSE [ st1 EXCEPT !.sessions[i].total_processed = @ + 1 ]
         IN  [ state |-> st2, file |-> f ]
    ELSE [ state |-> st, file |-> f ]

\* mark_processed without the is_processed test
mark_processed_unguarded(st, f, post_id, sid, t) ==
    LET i == FirstMatch(st.sessions, sid)
        st1 == [ st EXCEPT
                   !.processed_post_ids =
                       Append(@, [ id |-> post_id, processed_at |-> t,
                                   session_id |-> sid ]),
                   !.total_all_time = @ + 1 ]
        st2 == IF i = 0 THEN st1
               ELSE [ st1 EXCEPT !.sessions[i].total_processed = @ + 1 ]
    IN  [ state |-> st2, file |-> save(st2, f) ]

\* mark_processed that refreshes the record of an id it already holds
mark_processed_overwrite(st, f, post_id, sid, t) ==
    LET recs == st.processed_post_ids
        st2 == [ st EXCEPT !.processed_post_ids =
                   [ n \in DOMAIN recs |->
                       IF recs[n].id = post_id
                       THEN [ id |-> post_id, processed_at |-> t, session_id |-> sid ]
                       ELSE recs[n] ] ]
    IN  IF is_processed(st, post_id)
        THEN [ state |-> st2, file |-> save(st2, f) ]
        ELSE mark_processed_unguarded(st, f, post_id, sid, t)

mark_processed(st, f, post_id, sid, t) ==
    IF ~ is_processed(st, post_id)
    THEN LET i == FirstMatch(st.sessions, sid)
             st1 == [ st EXCEPT
                        !.processed_post_ids =
                            Append(@, [ id |-> post_id, processed_at |-> t,
                                        session_id |-> sid ]),
                        !.total_all_time = @ + 1 ]
             st2 == IF i = 0 THEN st1
                    ELSE [ st1 EXCEPT !.sessions[i].total_processed = @ + 1 ]
         IN  [ state |-> st2, file |-> save(st2, f) ]
    ELSE [ state |-> st, file |-> f ]

increment_failed(st, f, sid) ==
    LET i == FirstMatch(st.sessions, sid)
        st2 == IF i = 0 THEN st
               ELSE [ st EXCEPT !.sessions[i].total_failed = @ + 1 ]
    IN  [ state |-> st2, file |-> save(st2, f) ]

\* ----------------------------------------------------------------- helpers
Ids(st) == { st.processed_post_ids[i].id : i \in DOMAIN st.processed_post_ids }

\* the ids a reader finds in the durable document
DurableIds == IF state_file.exists /\ state_file.valid
              THEN Ids(state_file.doc) ELSE {}

NoCall == [ op |-> "none", proc |-> 0, post_id |-> 0, session_id |-> None ]

Call(o, p, i, s) == [ op |-> o, proc |-> p, post_id |-> i, session_id |-> s ]

\* a run's record: how often _save_post was called for each id, the ids it
\* returned True for and False for, the ids whose extract_post_data returned
\* None, the ids skipped as duplicates, the extract_posts calls made, and
\* why the run left its loop: the loop ended ("completed"), an exception was
\* raised ("failed"), Ctrl-C arrived ("interrupted"), the process was killed
\* ("killed"); whether the browser
\* is open or was closed by close(); whether _save_post or scroll_to_bottom
\* was called and no time.sleep since; whether Facebook has logged the
\* browser out; whether a save() of the run raised
EmptyLog == [ calls |-> [ i \in PostIds |-> 0 ], succeeded |-> {}, failed |-> {},
              no_data |-> {}, skipped |-> {}, batches |-> 0, causes |-> {},
              browser |-> "none", unslept |-> FALSE, logged_out |-> FALSE,
              storage_failed |-> FALSE ]

\* the browser when a statement of the launch sequence is cut short: launch
\* may or may not have returned
BrowserOnAbort(p) ==
    IF pc[p] = "launch" THEN { "none", "open" } ELSE { log[p].browser }

Attempted(p) == { i \in PostIds : log[p].calls[i] > 0 }
Succeeded(p) == log[p].succeeded
Failed(p) == log[p].failed

\* extract_posts: every article element of the page, in page order
extract_posts(p) == SubSeq(feed, 1, page[p])

\* ------------------------------------------ the layered duplicate check
\* a seen set that also takes the ids of elements whose data was not extracted
seen_ids_with_no_data(p) == log[p].skipped \cup Attempted(p) \cup log[p].no_data

\* seen_ids (design 4.3, layer 1): the ids that came to the duplicate check
\* earlier in this run; each is added when it is first seen, before it is
\* known whether the post will be saved
seen_ids(p) == log[p].skipped \cup Attempted(p)

\* is_duplicate (architecture 4.3), layers 1 and 2: the memory cache first,
\* then the state file
is_duplicate(p, post_id) ==
    IF post_id \in seen_ids(p) THEN TRUE
    ELSE is_processed(state[p], post_id)

\* --------------------------------------------------------- retry_on_error
DefaultMaxRetries == 3
MaxErr == 2       \* distinct error messages

\* what a call of func can raise: RetryableError, FatalError, or an exception
\* of a class retry_on_error names in no except clause
ErrorKinds == { "RetryableError", "FatalError", "Exception" }
Errors == [ kind : ErrorKinds, msg : 1 .. MaxErr ]
Returned == [ kind |-> "return", msg |-> 0 ]
NoError == [ kind |-> "none", msg |-> 0 ]

\* raise MaxRetriesExceeded(): a new exception built without arguments
MaxRetriesExceeded == [ kind |-> "MaxRetriesExceeded", msg |-> 0 ]

\* no retry_on_error call was made
RetryIdle ==
    [ pc |-> "idle", max_retries |-> 0, attempt |-> 0, outcomes |-> << >>,
      sleeps |-> << >>, status |-> "none", raised |-> NoError ]

\* for attempt in range(max_retries + 1)
in_range_inclusive(attempt, max_retries) == attempt <= max_retries

\* for attempt in range(max_retries)
in_range(attempt, max_retries) == attempt < max_retries

\* except clauses that swallow every exception and go on
except_clause_retry_all(e) == "retry"

\* except RetryableError: log, sleep, next attempt; except FatalError: log,
\* raise; any other exception leaves retry_on_error as it is
except_clause(e) == IF e.kind = "RetryableError" THEN "retry" ELSE "raise"

\* time.sleep(2 ** attempt)
backoff(attempt) == 2 ^ attempt

\* -------------------------------------------------------------------- Init
Init ==
    /\ state_file = NoFile
    /\ state = [ p \in Procs |-> EmptyState ]
    /\ session_id = [ p \in Procs |-> None ]
    /\ pc = [ p \in Procs |-> "idle" ]
    /\ page = [ p \in Procs |-> 0 ]
    /\ idx = [ p \in Procs |-> 0 ]
    /\ processed_count = [ p \in Procs |-> 0 ]
    /\ now = 0
    /\ feed \in [ 1 .. MaxFeed -> LinkedPosts ]
    /\ max_posts \in 1 .. MaxTarget
    /\ runs = 0
    /\ calls = 0
    /\ sink = [ i \in PostIds |-> 0 ]
    /\ log = [ p \in Procs |-> EmptyLog ]
    /\ history_at_start = [ p \in Procs |-> {} ]
    /\ marked = {}
    /\ last_call = NoCall
    /\ retry = RetryIdle
    /\ extracted = {}

\* what a step of process p leaves alone unless it says otherwise
Env == << now, feed, max_posts, calls, retry, extracted >>

\* the process is gone: its objects and locals with it
Gone(p) ==
    /\ UNCHANGED history_at_start
    /\ pc' = [ pc EXCEPT ![p] = "idle" ]
    /\ state' = [ state EXCEPT ![p] = EmptyState ]
    /\ session_id' = [ session_id EXCEPT ![p] = None ]
    /\ page' = [ page EXCEPT ![p] = 0 ]
    /\ idx' = [ idx EXCEPT ![p] = 0 ]
    /\ processed_count' = [ processed_count EXCEPT ![p] = 0 ]
    /\ last_call' = IF last_call.proc = p THEN NoCall ELSE last_call

\* --------------------------------------------------------- FacebookScraper
\* FacebookScraper.__init__: StateManager(...) loads the file; json.load
\* raises on a truncated document and the process ends
ConstructUpTo(p, n) ==
    /\ pc[p] = "idle"
    /\ runs < n
    /\ runs' = runs + 1
    /\ IF state_file.exists /\ ~ state_file.valid
       THEN UNCHANGED << state, pc >>
       ELSE /\ state' = [ state EXCEPT ![p] = _load_or_create(state_file) ]
            /\ pc' = [ pc EXCEPT ![p] = "start" ]
    /\ history_at_start' = [ history_at_start EXCEPT ![p] = DurableIds ]
    /\ log' = [ log EXCEPT ![p] = EmptyLog ]
    /\ UNCHANGED << state_file, session_id, page, idx, processed_count, Env,
                    sink, marked, last_call >>

\* at most MaxRuns processes are started
Construct(p) == ConstructUpTo(p, MaxRuns)

\* run(): self.session_id = self.state.start_session()
StartSession(p) ==
    /\ pc[p] = "start"
    /\ LET r == start_session(state[p], state_file, now)
       IN  /\ state' = [ state EXCEPT ![p] = r.state ]
           /\ state_file' = r.file
           /\ session_id' = [ session_id EXCEPT ![p] = r.result ]
           /\ last_call' = Call("start_session", p, 0, r.result)
    /\ pc' = [ pc EXCEPT ![p] = "launch" ]
    /\ UNCHANGED << page, idx, processed_count, Env, runs, sink, log, history_at_start, marked >>

\* run(): browser.launch, create_context, goto: the page shows the first posts
Launch(p) ==
    /\ pc[p] = "launch"
    /\ \E n \in 0 .. Len(feed) : page' = [ page EXCEPT ![p] = n ]
    /\ pc' = [ pc EXCEPT ![p] = "while" ]
    /\ log' = [ log EXCEPT ![p].browser = "open" ]
    /\ UNCHANGED << state_file, state, session_id, idx, processed_count, Env,
                    runs, sink, history_at_start, marked, last_call >>

\* a test that lets one post more through
target_reached_late(count, target) == count > target

\* _scrape_loop: while processed_count < max_posts, and in the for loop
\* if processed_count >= max_posts: break
target_reached(count, target) == count >= target

\* _scrape_loop: while processed_count < max_posts: posts = extract_posts(page)
WhileHead(p) ==
    /\ pc[p] = "while"
    /\ IF ~ target_reached(processed_count[p], max_posts)
       THEN /\ idx' = [ idx EXCEPT ![p] = 1 ]
            /\ log' = [ log EXCEPT ![p].batches = @ + 1 ]
            /\ pc' = [ pc EXCEPT ![p] = "for" ]
       ELSE /\ pc' = [ pc EXCEPT ![p] = "end" ]
            /\ log' = [ log EXCEPT ![p].causes = @ \cup { "completed" } ]
            /\ UNCHANGED idx
    /\ UNCHANGED << state_file, state, session_id, page, processed_count, Env,
                    runs, sink, history_at_start, marked, last_call >>

\* _scrape_loop: the head of the for loop, up to the duplicate check;
\* extract_post_data returns the post's data, or None when it raised inside
ForHead(p) ==
    /\ pc[p] = "for"
    /\ LET posts == extract_posts(p)
       IN  IF idx[p] > Len(posts) \/ target_reached(processed_count[p], max_posts)
           THEN /\ pc' = [ pc EXCEPT ![p] = "scroll" ]
                /\ UNCHANGED << idx, log >>
                /\ UNCHANGED extracted
           ELSE \E post_data \in { _extract_post_id(posts[idx[p]]), None } :
                  IF post_data = None
                  THEN /\ idx' = [ idx EXCEPT ![p] = @ + 1 ]
                       /\ log' = [ log EXCEPT ![p].no_data =
                                     @ \cup { _extract_post_id(posts[idx[p]]) } ]
                       /\ UNCHANGED << pc, extracted >>
                  ELSE /\ extracted' = extracted \cup
                            { [ element |-> posts[idx[p]], id |-> post_data ] }
                       /\ IF is_processed(state[p], post_data)
                          THEN /\ idx' = [ idx EXCEPT ![p] = @ + 1 ]
                               /\ log' = [ log EXCEPT ![p].skipped =
                                             @ \cup { post_data } ]
                               /\ UNCHANGED pc
                          ELSE /\ pc' = [ pc EXCEPT ![p] = "save" ]
                               /\ UNCHANGED << idx, log >>
    /\ UNCHANGED << state_file, state, session_id, page, processed_count, now,
                    feed, max_posts, calls, retry, runs, sink,
                    history_at_start, marked, last_call >>

\* a loop that calls mark_processed whatever _save_post returned
SavePost_mark_always(p) ==
    /\ pc[p] = "save"
    /\ LET id == _extract_post_id(extract_posts(p)[idx[p]])
       IN  \E ok \in BOOLEAN :
                /\ log' = [ log EXCEPT
                             ![p].calls[id] = @ + 1,
                             ![p].succeeded = IF ok THEN @ \cup {id} ELSE @,
                             ![p].failed = IF ok THEN @ ELSE @ \cup {id},
                             ![p].unslept = TRUE ]
                /\ sink' = IF ok THEN [ sink EXCEPT ![id] = @ + 1 ] ELSE sink
                /\ pc' = [ pc EXCEPT ![p] = "mark" ]
    /\ UNCHANGED << state_file, state, session_id, page, idx, processed_count,
                    Env, runs, history_at_start, marked, last_call >>

\* _save_post: the save script archives the post (True) or fails (False)
SavePost(p) ==
    /\ pc[p] = "save"
    /\ LET id == _extract_post_id(extract_posts(p)[idx[p]])
       IN  \E ok \in BOOLEAN :
                /\ log' = [ log EXCEPT
                             ![p].calls[id] = @ + 1,
                             ![p].succeeded = IF ok THEN @ \cup {id} ELSE @,
                             ![p].failed = IF ok THEN @ ELSE @ \cup {id},
                             ![p].unslept = TRUE ]
                /\ IF ok
                   THEN /\ sink' = [ sink EXCEPT ![id] = @ + 1 ]
                        /\ pc' = [ pc EXCEPT ![p] = "mark" ]
                   ELSE /\ pc' = [ pc EXCEPT ![p] = "fail" ]
                        /\ UNCHANGED sink
    /\ UNCHANGED << state_file, state, session_id, page, idx, processed_count,
                    Env, runs, history_at_start, marked, last_call >>

\* _scrape_loop: mark_processed(post_data['id'], self.session_id); processed_count += 1
MarkProcessed(p) ==
    /\ pc[p] = "mark"
    /\ LET id == _extract_post_id(extract_posts(p)[idx[p]])
           r == mark_processed(state[p], state_file, id, session_id[p], now)
       IN  /\ state' = [ state EXCEPT ![p] = r.state ]
           /\ state_file' = r.file
           /\ marked' = marked \cup {id}
           /\ last_call' = Call("mark_processed", p, id, session_id[p])
    /\ processed_count' = [ processed_count EXCEPT ![p] = @ + 1 ]
    /\ idx' = [ idx EXCEPT ![p] = @ + 1 ]
    /\ pc' = [ pc EXCEPT ![p] = "for" ]
    /\ UNCHANGED << session_id, page, Env, runs, sink, log,
                    history_at_start >>

\* _scrape_loop: increment_failed(self.session_id)
IncrementFailed(p) ==
    /\ pc[p] = "fail"
    /\ LET r == increment_failed(state[p], state_file, session_id[p])
       IN  /\ state' = [ state EXCEPT ![p] = r.state ]
           /\ state_file' = r.file
           /\ last_call' = Call("increment_failed", p, 0, session_id[p])
    /\ idx' = [ idx EXCEPT ![p] = @ + 1 ]
    /\ pc' = [ pc EXCEPT ![p] = "for" ]
    /\ UNCHANGED << session_id, page, processed_count, Env, runs, sink,
                    log, history_at_start, marked >>

\* _scrape_loop: has_more = scroll_to_bottom(); the page grows or the loop ends
Scroll(p) ==
    /\ pc[p] = "scroll"
    /\ \/ /\ page[p] < Len(feed)
          /\ ~ log[p].logged_out
          /\ \E n \in (page[p] + 1) .. Len(feed) : page' = [ page EXCEPT ![p] = n ]
          /\ pc' = [ pc EXCEPT ![p] = "while" ]
          /\ log' = [ log EXCEPT ![p].unslept = FALSE ]
       \/ /\ pc' = [ pc EXCEPT ![p] = "end" ]
          /\ log' = [ log EXCEPT ![p].causes = @ \cup { "completed" },
                                 ![p].unslept = FALSE ]
          /\ UNCHANGED page
    /\ UNCHANGED << state_file, state, session_id, idx, processed_count, Env,
                    runs, sink, history_at_start, marked, last_call >>

\* a run() whose clauses go on without calling end_session
EndWith_skipped(p, status, next) ==
    /\ pc' = [ pc EXCEPT ![p] = next ]
    /\ UNCHANGED << state_file, state, last_call, session_id, page, idx,
                    processed_count, Env, runs, sink, log, history_at_start,
                    marked >>

\* the three end_session calls of run()
EndWith(p, status, next) ==
    /\ LET r == end_session(state[p], state_file, session_id[p], status, now)
       IN  /\ state' = [ state EXCEPT ![p] = r.state ]
           /\ state_file' = r.file
           /\ last_call' = Call("end_session", p, 0, session_id[p])
    /\ pc' = [ pc EXCEPT ![p] = next ]
    /\ UNCHANGED << session_id, page, idx, processed_count, Env, runs, sink,
                    log, history_at_start, marked >>

\* run(): self.state.end_session(self.session_id, 'completed')
EndCompleted(p) == pc[p] = "end" /\ EndWith(p, "completed", "log_completed")

\* a run() that goes back to scraping after it ended its session
LogCompleted_again(p) ==
    /\ pc[p] = "log_completed"
    /\ pc' = [ pc EXCEPT ![p] = "while" ]
    /\ UNCHANGED << state_file, state, session_id, page, idx, processed_count,
                    Env, runs, sink, log, history_at_start,
                    marked, last_call >>

\* run(): self.logger.info("=== Scraper Completed ===")
LogCompleted(p) ==
    /\ pc[p] = "log_completed"
    /\ pc' = [ pc EXCEPT ![p] = "finally" ]
    /\ UNCHANGED << state_file, state, session_id, page, idx, processed_count,
                    Env, runs, sink, log, history_at_start,
                    marked, last_call >>

TryBlock == { "start", "launch", "while", "for", "save", "mark", "fail",
              "scroll", "end", "log_completed" }

\* Ctrl-C while run() is inside its try block
KeyboardInterrupt(p) ==
    /\ pc[p] \in TryBlock
    /\ pc' = [ pc EXCEPT ![p] = "except_interrupt" ]
    /\ \E b \in BrowserOnAbort(p) :
         log' = [ log EXCEPT ![p].causes = @ \cup { "interrupted" },
                             ![p].browser = b ]
    /\ UNCHANGED << state_file, state, session_id, page, idx, processed_count,
                    Env, runs, sink, history_at_start, marked, last_call >>

\* a browser call raises (launch, goto, query_selector_all, evaluate)
RaiseException(p) ==
    /\ pc[p] \in { "launch", "while", "scroll" }
    /\ pc' = [ pc EXCEPT ![p] = "except_exception" ]
    /\ \E b \in BrowserOnAbort(p) :
         log' = [ log EXCEPT ![p].causes = @ \cup { "failed" },
                             ![p].browser = b ]
    /\ UNCHANGED << state_file, state, session_id, page, idx, processed_count,
                    Env, runs, sink, history_at_start, marked, last_call >>

\* run(): except KeyboardInterrupt: end_session(self.session_id, 'interrupted')
EndInterrupted(p) ==
    pc[p] = "except_interrupt" /\ EndWith(p, "interrupted", "finally")

\* run(): except Exception: end_session(self.session_id, 'failed')
EndFailed(p) == pc[p] = "except_exception" /\ EndWith(p, "failed", "finally")

\* run(): finally: browser.close(); _print_summary(); the process exits
Finally(p) ==
    /\ pc[p] = "finally"
    /\ log' = [ log EXCEPT ![p].browser = IF @ = "open" THEN "closed" ELSE @ ]
    /\ Gone(p)
    /\ UNCHANGED << state_file, Env, runs, sink, marked >>

Running == TryBlock \cup { "except_interrupt", "except_exception", "finally" }

\* the process is killed between two statements
Crash(p) ==
    /\ pc[p] \in Running
    /\ Gone(p)
    /\ log' = [ log EXCEPT ![p].causes = @ \cup { "killed" } ]
    /\ UNCHANGED << state_file, Env, runs, sink, marked >>

\* the statements whose next call writes the file
BeforeSave == { "start", "mark", "fail", "end", "except_interrupt",
                "except_exception" }

\* the process is killed inside save(), after open(..., 'w') and before the
\* document is written out
CrashInSave(p) ==
    /\ pc[p] \in BeforeSave
    /\ state_file' = Truncated
    /\ Gone(p)
    /\ log' = [ log EXCEPT ![p].causes = @ \cup { "killed" } ]
    /\ UNCHANGED << Env, runs, sink, marked >>

Tick ==
    /\ now < MaxTime
    /\ now' = now + 1
    /\ UNCHANGED << state_file, state, session_id, pc, page, idx,
                    processed_count, feed, max_posts, runs, calls, sink,
                    log, history_at_start, marked, last_call, retry,
                    extracted >>

Next ==
    \/ Tick
    \/ \E p \in {1} :
         \/ Construct(p)
         \/ StartSession(p)
         \/ Launch(p)
         \/ WhileHead(p)
         \/ ForHead(p)
         \/ SavePost(p)
         \/ MarkProcessed(p)
         \/ IncrementFailed(p)
         \/ Scroll(p)
         \/ EndCompleted(p)
         \/ LogCompleted(p)
         \/ KeyboardInterrupt(p)
         \/ RaiseException(p)
         \/ EndInterrupted(p)
         \/ EndFailed(p)
         \/ Finally(p)
         \/ Crash(p)
         \/ CrashInSave(p)

Spec == Init /\ [][Next]_vars

\* ------------------------------------------------- two scrapers, one file
\* each process runs run() to its end; nothing is killed or interrupted
\* the clock is read for the session id; between two session starts it stands
TickConc == Tick /\ \E p \in Procs : pc[p] = "start"

NextConc ==
    \/ TickConc
    \/ \E p \in Procs :
         \/ Construct(p)
         \/ StartSession(p)
         \/ Launch(p)
         \/ WhileHead(p)
         \/ ForHead(p)
         \/ SavePost(p)
         \/ MarkProcessed(p)
         \/ IncrementFailed(p)
         \/ Scroll(p)
         \/ EndCompleted(p)
         \/ LogCompleted(p)
         \/ Finally(p)

InitConc ==
    /\ Init
    /\ feed = [ i \in 1 .. MaxFeed |-> IF i \in Items THEN Post(i) ELSE Post(1) ]
    /\ max_posts = 1

SpecConc == InitConc /\ [][NextConc]_vars

\* ------------------------------------------- the StateManager test script
\* a client holding one StateManager and calling its methods in any order
\* with any arguments: sm = StateManager(...); sm.start_session(); ...
SessionArgs == (0 .. MaxTime) \cup { None }

InitStore ==
    /\ Init
    /\ feed = [ i \in 1 .. MaxFeed |-> Post(1) ]
    /\ max_posts = 1

ClientFrame ==
    UNCHANGED << session_id, page, idx, processed_count, now, feed, max_posts,
                 runs, sink, log, retry, extracted >>

\* sm = StateManager('test_state/test.json')
ClientOpen ==
    /\ pc[1] = "idle"
    /\ calls < MaxCalls
    /\ calls' = calls + 1
    /\ pc' = [ pc EXCEPT ![1] = "client" ]
    /\ state' = [ state EXCEPT ![1] = _load_or_create(state_file) ]
    /\ history_at_start' = [ history_at_start EXCEPT ![1] = DurableIds ]
    /\ UNCHANGED << state_file, marked, last_call >>
    /\ ClientFrame

ClientCall(r, c) ==
    /\ pc[1] = "client"
    /\ calls < MaxCalls
    /\ calls' = calls + 1
    /\ state' = [ state EXCEPT ![1] = r.state ]
    /\ state_file' = r.file
    /\ last_call' = c
    /\ UNCHANGED << pc, history_at_start >>
    /\ ClientFrame

\* session_id = sm.start_session()
ClientStartSession ==
    /\ ClientCall(start_session(state[1], state_file, now),
                  Call("start_session", 1, 0, now))
    /\ UNCHANGED marked

\* sm.end_session(session_id, status)
ClientEndSession ==
    \E sid \in SessionArgs, status \in Statuses :
        /\ ClientCall(end_session(state[1], state_file, sid, status, now),
                      Call("end_session", 1, 0, sid))
        /\ UNCHANGED marked

\* sm.mark_processed('test_post_1', session_id)
ClientMarkProcessed ==
    \E id \in Items, sid \in SessionArgs :
        /\ ClientCall(mark_processed(state[1], state_file, id, sid, now),
                      Call("mark_processed", 1, id, sid))
        /\ marked' = marked \cup {id}

\* sm.increment_failed(session_id)
ClientIncrementFailed ==
    \E sid \in SessionArgs :
        /\ ClientCall(increment_failed(state[1], state_file, sid),
                      Call("increment_failed", 1, 0, sid))
        /\ UNCHANGED marked

\* the test script ends; a later script opens the file again
ClientExit ==
    /\ pc[1] = "client"
    /\ Gone(1)
    /\ UNCHANGED log
    /\ UNCHANGED << state_file, Env, runs, sink, marked >>

NextStore ==
    \/ Tick
    \/ ClientOpen
    \/ ClientStartSession
    \/ ClientEndSession
    \/ ClientMarkProcessed
    \/ ClientIncrementFailed
    \/ ClientExit

SpecStore == InitStore /\ [][NextStore]_vars

\* ----------------------------------------- a caller of retry_on_error
ScraperVars == << state_file, state, session_id, pc, page, idx, processed_count,
                  now, feed, max_posts, runs, calls, sink, log,
                  history_at_start, marked, last_call, extracted >>

InitRetry == InitStore

\* retry_on_error(func, max_retries)
RetryCall ==
    /\ retry.pc = "idle"
    /\ \E m \in 0 .. DefaultMaxRetries :
         retry' = [ RetryIdle EXCEPT !.pc = "for", !.max_retries = m ]
    /\ UNCHANGED ScraperVars

\* the head of the for loop; after the loop: raise MaxRetriesExceeded()
RetryFor ==
    /\ retry.pc = "for"
    /\ IF in_range(retry.attempt, retry.max_retries)
       THEN retry' = [ retry EXCEPT !.pc = "try" ]
       ELSE retry' = [ retry EXCEPT !.pc = "done", !.status = "exhausted",
                                    !.raised = MaxRetriesExceeded ]
    /\ UNCHANGED ScraperVars

\* try: return func(), and the except clause its exception selects
RetryTry ==
    /\ retry.pc = "try"
    /\ \E outcome \in { Returned } \cup Errors :
         LET r == [ retry EXCEPT !.outcomes = Append(@, outcome) ]
         IN  IF outcome = Returned
             THEN retry' = [ r EXCEPT !.pc = "done", !.status = "succeeded" ]
             ELSE IF except_clause(outcome) = "retry"
             THEN retry' = [ r EXCEPT !.pc = "sleep" ]
             ELSE retry' = [ r EXCEPT !.pc = "done", !.status = "fatal",
                                      !.raised = outcome ]
    /\ UNCHANGED ScraperVars

\* logger.warning(...); time.sleep(2 ** attempt); the next attempt
RetrySleep ==
    /\ retry.pc = "sleep"
    /\ retry' = [ retry EXCEPT !.sleeps = Append(@, backoff(retry.attempt)),
                               !.attempt = @ + 1, !.pc = "for" ]
    /\ UNCHANGED ScraperVars

NextRetry ==
    \/ RetryCall
    \/ RetryFor
    \/ RetryTry
    \/ RetrySleep

SpecRetry == InitRetry /\ [][NextRetry]_vars

\* ------------------------------ runs over a feed of every kind of element
\* a page of a post with a link id, a post without one and a post of any
\* kind, with equal and different text; the runs end normally
InitPage ==
    /\ state_file = NoFile
    /\ state = [ p \in Procs |-> EmptyState ]
    /\ session_id = [ p \in Procs |-> None ]
    /\ pc = [ p \in Procs |-> "idle" ]
    /\ page = [ p \in Procs |-> 0 ]
    /\ idx = [ p \in Procs |-> 0 ]
    /\ processed_count = [ p \in Procs |-> 0 ]
    /\ now = 0
    /\ feed \in { f \in [ 1 .. PageLen -> Elements ] :
                    /\ f[1].link.present /\ f[1].link.digits # << >>
                    /\ ~ f[2].link.present \/ f[2].link.digits = << >> }
    /\ max_posts \in 1 .. MaxTarget
    /\ runs = 0
    /\ calls = 0
    /\ sink = [ i \in PostIds |-> 0 ]
    /\ log = [ p \in Procs |-> EmptyLog ]
    /\ history_at_start = [ p \in Procs |-> {} ]
    /\ marked = {}
    /\ last_call = NoCall
    /\ retry = RetryIdle
    /\ extracted = {}

\* goto: the page shows the whole feed at once
LaunchPage(p) == Launch(p) /\ page'[p] = Len(feed)

\* the head of the for loop when extract_post_data raises nothing inside
ForHeadData(p) == ForHead(p) /\ log'[p].no_data = log[p].no_data

NextPage ==
    \/ TickConc
    \/ \E p \in {1} :
         \/ Construct(p)
         \/ StartSession(p)
         \/ LaunchPage(p)
         \/ WhileHead(p)
         \/ ForHeadData(p)
         \/ SavePost(p)
         \/ MarkProcessed(p)
         \/ IncrementFailed(p)
         \/ Scroll(p)
         \/ EndCompleted(p)
         \/ LogCompleted(p)
         \/ Finally(p)

SpecPage == InitPage /\ [][NextPage]_vars

\* --------------- runs in which Facebook logs out or save() raises OSError
InitFault ==
    /\ Init
    /\ feed = [ i \in 1 .. MaxFeed |-> IF i \in Items THEN Post(i) ELSE Post(1) ]
    /\ max_posts = MaxTarget

\* the login cookies stop being accepted between two batches: the page turns
\* into the login page, which has no article element and nothing to load
AuthExpired(p) ==
    /\ pc[p] \in { "while", "scroll" }
    /\ ~ log[p].logged_out
    /\ log' = [ log EXCEPT ![p].logged_out = TRUE ]
    /\ page' = [ page EXCEPT ![p] = 0 ]
    /\ UNCHANGED << state_file, state, session_id, pc, idx, processed_count,
                    Env, runs, sink, history_at_start, marked, last_call >>

\* what the StateManager method called next has done to self.state when it
\* comes to its self.save()
BeforeSaveState(p) ==
    IF pc[p] = "start" THEN start_session(state[p], state_file, now).state
    ELSE IF pc[p] = "mark"
    THEN mark_processed(state[p], state_file,
                        _extract_post_id(extract_posts(p)[idx[p]]),
                        session_id[p], now).state
    ELSE IF pc[p] = "fail"
    THEN increment_failed(state[p], state_file, session_id[p]).state
    ELSE IF pc[p] = "end"
    THEN end_session(state[p], state_file, session_id[p], "completed", now).state
    ELSE end_session(state[p], state_file, session_id[p], "failed", now).state

\* a save() whose OSError is caught and logged, the loop going on
SaveFails_swallowed(p) ==
    /\ pc[p] \in { "start", "mark", "fail", "end" }
    /\ state' = [ state EXCEPT ![p] = BeforeSaveState(p) ]
    /\ state_file' \in { state_file, Truncated }
    /\ pc' = [ pc EXCEPT ![p] = "while" ]
    /\ log' = [ log EXCEPT ![p].storage_failed = TRUE ]
    /\ UNCHANGED << session_id, page, idx, processed_count, Env, runs, sink,
                    history_at_start, marked, last_call >>

\* save() raises OSError inside a StateManager call of the try block: open()
\* failed and the file is as before, or the write failed after open()
\* truncated it; the method has changed self.state and does not return
SaveFails(p) ==
    /\ pc[p] \in { "start", "mark", "fail", "end" }
    /\ state' = [ state EXCEPT ![p] = BeforeSaveState(p) ]
    /\ state_file' \in { state_file, Truncated }
    /\ pc' = [ pc EXCEPT ![p] = "except_exception" ]
    /\ log' = [ log EXCEPT ![p].causes = @ \cup { "failed" },
                           ![p].storage_failed = TRUE ]
    /\ UNCHANGED << session_id, page, idx, processed_count, Env, runs, sink,
                    history_at_start, marked, last_call >>

\* save() raises again inside end_session(self.session_id, 'failed'): the
\* exception leaves the except clause and the finally clause runs
SaveFailsInHandler(p) ==
    /\ pc[p] = "except_exception"
    /\ state' = [ state EXCEPT ![p] = BeforeSaveState(p) ]
    /\ state_file' \in { state_file, Truncated }
    /\ pc' = [ pc EXCEPT ![p] = "finally" ]
    /\ log' = [ log EXCEPT ![p].storage_failed = TRUE ]
    /\ UNCHANGED << session_id, page, idx, processed_count, Env, runs, sink,
                    history_at_start, marked, last_call >>

NextFault ==
    \/ TickConc
    \/ \E p \in {1} :
         \/ Construct(p)
         \/ StartSession(p)
         \/ Launch(p)
         \/ WhileHead(p)
         \/ ForHead(p)
         \/ SavePost(p)
         \/ MarkProcessed(p)
         \/ IncrementFailed(p)
         \/ Scroll(p)
         \/ EndCompleted(p)
         \/ LogCompleted(p)
         \/ RaiseException(p)
         \/ EndFailed(p)
         \/ Finally(p)
         \/ AuthExpired(p)
         \/ SaveFails(p)
         \/ SaveFailsInHandler(p)

SpecFault == InitFault /\ [][NextFault]_vars

\* ------------- two scrapers on one file, one of them started a second time
\* a wrapper starts the scraper again after a run has ended
ConstructAgain(p) == ConstructUpTo(p, MaxRuns + 1)

NextShare ==
    \/ TickConc
    \/ \E p \in Procs :
         \/ ConstructAgain(p)
         \/ StartSession(p)
         \/ LaunchPage(p)
         \/ WhileHead(p)
         \/ ForHeadData(p)
         \/ SavePost(p)
         \/ MarkProcessed(p)
         \/ IncrementFailed(p)
         \/ Scroll(p)
         \/ EndCompleted(p)
         \/ LogCompleted(p)
         \/ RaiseException(p)
         \/ EndFailed(p)
         \/ Finally(p)

InitShare ==
    /\ Init
    /\ feed = [ i \in 1 .. MaxFeed |-> Post(1) ]
    /\ max_posts = 1

SpecShare == InitShare /\ [][NextShare]_vars

\* ------------------- runs that are left alone until run() has returned
\* the next statement of run(): the source and the save script may fail in
\* every way; nobody kills the process or presses Ctrl-C
RunStep(p) ==
    \/ StartSession(p)
    \/ Launch(p)
    \/ WhileHead(p)
    \/ ForHead(p)
    \/ SavePost(p)
    \/ MarkProcessed(p)
    \/ IncrementFailed(p)
    \/ Scroll(p)
    \/ EndCompleted(p)
    \/ LogCompleted(p)
    \/ RaiseException(p)
    \/ EndFailed(p)
    \/ Finally(p)

NextLive ==
    \/ TickConc
    \/ \E p \in {1} : Construct(p) \/ RunStep(p)

\* a started process executes its next statement: every browser call and
\* the save script return or raise within their timeouts
SpecLive == Init /\ [][NextLive]_vars /\ WF_vars(\E p \in {1} : RunStep(p))

\* ================================================================= claims
Mutating == { "start_session", "end_session", "mark_processed", "increment_failed" }

RECURSIVE SumProcessed(_)
SumProcessed(sessions) ==
    IF sessions = << >> THEN 0
    ELSE sessions[1].total_processed + SumProcessed(Tail(sessions))

Counters(st) ==
    << st.total_all_time,
       [ i \in DOMAIN st.sessions |->
           << st.sessions[i].total_processed, st.sessions[i].total_failed >> ] >>

FileReadable == state_file.exists /\ state_file.valid

\* C1: in a run started after any number of kills and restarts, _save_post is
\* never called for a post id that was in the state file's processed history
\* when that run loaded it.
C1_NoRearchiveAfterRestart ==
    \A p \in Procs : Attempted(p) \cap history_at_start[p] = {}

\* a restarted run, after a killed one, that skipped a recorded id and called
\* _save_post for another
C1_Witness ==
    /\ runs = 2
    /\ pc[1] # "idle"
    /\ Len(state[1].sessions) = 2
    /\ state[1].sessions[1].status = "running"
    /\ history_at_start[1] # {}
    /\ log[1].skipped \cap history_at_start[1] # {}
    /\ Attempted(1) # {}

\* C2: with two scraper processes on one state file, every post id is
\* archived (a _save_post call returning True) at most once in total.
C2_ArchivedAtMostOnce == \A i \in Items : sink[i] <= 1

\* C3: once start_session has returned, every session that an earlier process
\* left behind is no longer running (it was made interrupted).
C3_RunningFoundInterrupted ==
    last_call.op = "start_session" =>
        LET sessions == state[last_call.proc].sessions
        IN  \A i \in 1 .. (Len(sessions) - 1) : sessions[i].status # "running"

\* C4: every id for which mark_processed has returned is reported by
\* is_processed in every live StateManager, of the same or a later process,
\* and by the durable document whenever it can be read.
C4_DedupMonotone ==
    /\ \A p \in Procs :
         pc[p] # "idle" => \A i \in marked : is_processed(state[p], i)
    /\ FileReadable => \A i \in marked : is_processed(state_file.doc, i)

\* a second process that loaded the history and skipped a marked id
C4_Witness ==
    /\ runs = 2
    /\ pc[1] = "for"
    /\ marked # {}
    /\ marked \subseteq history_at_start[1]
    /\ log[1].skipped \cap marked # {}

\* C5: a mark_processed call for an id already recorded changes no counter
\* (total_all_time, every session's total_processed and total_failed); a call
\* for a new id adds one to total_all_time and, when its session exists, one
\* to the sum of total_processed.
C5_NoDoubleCount ==
    [][ ( pc[1] = "client" /\ calls' = calls + 1
          /\ last_call'.op = "mark_processed" ) =>
        IF is_processed(state[1], last_call'.post_id)
        THEN Counters(state'[1]) = Counters(state[1])
        ELSE /\ state'[1].total_all_time = state[1].total_all_time + 1
             /\ FirstMatch(state[1].sessions, last_call'.session_id) # 0 =>
                  SumProcessed(state'[1].sessions) =
                      SumProcessed(state[1].sessions) + 1 ]_vars

\* mark_processed was called again for the one recorded id, with another
\* session id, and the total is still 1
C5_Witness ==
    /\ last_call.op = "mark_processed"
    /\ Len(state[1].processed_post_ids) = 1
    /\ state[1].processed_post_ids[1].id = last_call.post_id
    /\ state[1].processed_post_ids[1].session_id # last_call.session_id
    /\ state[1].total_all_time = 1

OneRecordPerId(st) ==
    \A m, n \in DOMAIN st.processed_post_ids :
        st.processed_post_ids[m].id = st.processed_post_ids[n].id => m = n

\* C6: the processed history never holds two records with the same id, and a
\* mark_processed call for a recorded id leaves every record as it was.
C6_OneRecordPerFingerprint ==
    /\ [] ( /\ \A p \in Procs : OneRecordPerId(state[p])
            /\ OneRecordPerId(state_file.doc) )
    /\ [][ ( pc[1] = "client" /\ calls' = calls + 1
             /\ last_call'.op = "mark_processed"
             /\ is_processed(state[1], last_call'.post_id) ) =>
           /\ state'[1].processed_post_ids = state[1].processed_post_ids
           /\ state_file'.doc.processed_post_ids = state[1].processed_post_ids ]_vars

\* with two ids recorded, mark_processed was called again for one of them,
\* later and with another session id; its record kept the old values
C6_Witness ==
    /\ last_call.op = "mark_processed"
    /\ Len(state[1].processed_post_ids) = 2
    /\ \E n \in DOMAIN state[1].processed_post_ids :
         /\ state[1].processed_post_ids[n].id = last_call.post_id
         /\ state[1].processed_post_ids[n].session_id # last_call.session_id
         /\ state[1].processed_post_ids[n].processed_at < now

\* C7: a run that ended normally after one batch of N distinct unprocessed
\* posts, in which _save_post failed for post k and for no other, has N-1 new
\* processed records and total_failed = 1 in its session, and called
\* _save_post for every post k+1..N.
C7_FailureIsolation ==
    \A p \in Procs :
      \A k \in 1 .. page[p] :
        ( /\ pc[p] = "log_completed"
          /\ log[p].batches = 1
          /\ log[p].no_data = {}
          /\ \A a, b \in 1 .. page[p] :
                _extract_post_id(feed[a]) = _extract_post_id(feed[b]) => a = b
          /\ \A a \in 1 .. page[p] :
                _extract_post_id(feed[a]) \notin history_at_start[p]
          /\ Failed(p) = { _extract_post_id(feed[k]) }
          /\ Succeeded(p) \cap Failed(p) = {} )
        => /\ Cardinality(Ids(state[p]) \ history_at_start[p]) = page[p] - 1
           /\ state[p].sessions[Len(state[p].sessions)].total_failed = 1
           /\ \A j \in (k + 1) .. page[p] :
                _extract_post_id(feed[j]) \in Attempted(p)

C9_AtMostInFlightLost ==
    \A p \in Procs : Cardinality(Succeeded(p) \ DurableIds) <= 1

\* C10: once a session's status is no longer running, no step changes its
\* status or its end_time.
C10_FinalizedOnce ==
    [][ ( FileReadable /\ state_file'.exists /\ state_file'.valid ) =>
        \A i \in DOMAIN state_file.doc.sessions :
            ( i \in DOMAIN state_file'.doc.sessions
              /\ state_file.doc.sessions[i].status # "running" ) =>
            /\ state_file'.doc.sessions[i].status = state_file.doc.sessions[i].status
            /\ state_file'.doc.sessions[i].end_time = state_file.doc.sessions[i].end_time
      ]_vars

\* C11: end_session called with a session id that no session carries returns
\* normally and leaves every session, the processed records and
\* total_all_time as they were, in memory and in the file
C11_UnknownSessionNoOp ==
    [][ ( /\ pc[1] = "client"
          /\ calls' = calls + 1
          /\ last_call'.op = "end_session"
          /\ FirstMatch(state[1].sessions, last_call'.session_id) = 0 )
        => ( /\ state'[1] = state[1]
             /\ state_file'.exists /\ state_file'.valid
             /\ state_file'.doc = state[1] ) ]_vars

C11_Witness ==
    /\ last_call.op = "end_session"
    /\ FirstMatch(state[1].sessions, last_call.session_id) = 0
    /\ Len(state[1].sessions) > 0
    /\ state[1].sessions[1].status = "running"
    /\ state[1].total_all_time > 0
    /\ state_file.doc = state[1]

Terminal == { "succeeded", "exhausted", "fatal" }

AllRetryable(outcomes) ==
    \A n \in DOMAIN outcomes : outcomes[n].kind = "RetryableError"

C13_TerminalStates ==
    /\ [] ( /\ AllRetryable(SubSeq(retry.outcomes, 1, Len(retry.outcomes) - 1))
            /\ (retry.pc = "done") <=> (retry.status \in Terminal)
            /\ retry.status = "succeeded"
                  => retry.outcomes[Len(retry.outcomes)] = Returned
            /\ retry.status = "fatal"
                  => retry.outcomes[Len(retry.outcomes)].kind
                        \in { "FatalError", "Exception" }
            /\ retry.status = "exhausted" => AllRetryable(retry.outcomes) )
    /\ [][ retry.status \in Terminal => retry' = retry ]_vars

C13_Witness ==
    /\ retry.status = "fatal"
    /\ retry.max_retries = DefaultMaxRetries
    /\ Len(retry.outcomes) = 2
    /\ retry.outcomes[2].kind = "FatalError"

\* C14: when retry_on_error ends in failure after at least one call of func,
\* the exception it raises is the one the last call of func raised
C14_CarriesLastError ==
    ( retry.status \in { "fatal", "exhausted" } /\ Len(retry.outcomes) > 0 )
        => retry.raised = retry.outcomes[Len(retry.outcomes)]

\* the session the latest run of p appended, as p holds it in memory
OwnSession(p) == state[p].sessions[Len(state[p].sessions)]

\* C15: when run() has made its end_session call, the status of the run's
\* own session names a cause that occurred in the run: completed only if the
\* loop ended (target reached or nothing more to load), failed only if an
\* exception was raised, interrupted only if Ctrl-C arrived
C15_StatusMatchesCause ==
    \A p \in Procs :
        ( pc[p] = "finally" /\ session_id[p] # None )
            => OwnSession(p).status \in log[p].causes

\* Ctrl-C has arrived in the latest run of p and the run is past its loop
Stopped(p) ==
    /\ "interrupted" \in log[p].causes
    /\ pc[p] \in { "except_interrupt", "finally" }

\* C16: once Ctrl-C has arrived, every post the run archived is marked
\* processed in the run's StateManager, no further _save_post call is made,
\* and the run's own session ends with status interrupted
C16_GracefulStop ==
    /\ [] ( \A p \in Procs :
              Stopped(p) =>
                /\ Succeeded(p) \subseteq Ids(state[p])
                /\ ( pc[p] = "finally" /\ session_id[p] # None )
                      => OwnSession(p).status = "interrupted" )
    /\ [][ \A p \in Procs :
             ( Stopped(p) /\ "interrupted" \in log'[p].causes )
                => log'[p].calls = log[p].calls ]_vars

\* the digits of the post link of an article element, << >> when it has none
declaredID(element) ==
    IF element.link.present THEN element.link.digits ELSE << >>

\* C17: a post is skipped exactly when its id is in the StateManager; in a
\* run that starts with exactly the id of the first post processed, gets the
\* page [post 1 with a link id, post 2 without link id and with the text of
\* post 1, post 3 with a new id] in one batch with room for two posts, and
\* ends normally without a failure: post 1 is skipped, posts 2 and 3 are
\* archived, and the run's session has total_processed = 2
C17_DedupScenario ==
    \A p \in Procs :
        /\ pc[p] \in Running => log[p].skipped \subseteq Ids(state[p])
        /\ ( /\ pc[p] = "log_completed"
              /\ Len(feed) = 3
              /\ page[p] = 3
              /\ log[p].batches = 1
              /\ log[p].no_data = {}
              /\ Failed(p) = {}
              /\ max_posts >= 2
              /\ declaredID(feed[1]) # << >>
              /\ declaredID(feed[2]) = << >>
              /\ feed[2].text = feed[1].text
              /\ declaredID(feed[3]) # << >>
              /\ declaredID(feed[3]) # declaredID(feed[1])
              /\ history_at_start[p] = { _extract_post_id(feed[1]) } )
            => ( /\ log[p].skipped = { _extract_post_id(feed[1]) }
                 /\ Succeeded(p) = { _extract_post_id(feed[2]),
                                      _extract_post_id(feed[3]) }
                 /\ sink[_extract_post_id(feed[2])] = 1
                 /\ sink[_extract_post_id(feed[3])] = 1
                 /\ OwnSession(p).total_processed = 2 )

InLoop == { "launch", "while", "for", "save", "mark", "fail", "scroll" }

\* C20: in a run that follows a run which did not complete, once
\* start_session has returned the earlier run's session has status
\* interrupted, and the run calls _save_post for no post id that was in the
\* file when it started
C20_ResumeAfterAbort ==
    \A p \in Procs :
        ( /\ pc[p] \in InLoop
          /\ Len(state[p].sessions) >= 2
          /\ state[p].sessions[Len(state[p].sessions) - 1].status # "completed" )
        => ( /\ state[p].sessions[Len(state[p].sessions) - 1].status
                    = "interrupted"
             /\ Attempted(p) \cap history_at_start[p] = {} )

\* C21: no two sessions of the state file carry the same session_id, and the
\* id start_session returns belongs to the session it appended only
C21_UniqueSessionIds ==
    /\ \A i, j \in DOMAIN state_file.doc.sessions :
         state_file.doc.sessions[i].session_id
            = state_file.doc.sessions[j].session_id => i = j
    /\ last_call.op = "start_session" =>
         FirstMatch(state[last_call.proc].sessions, last_call.session_id)
            = Len(state[last_call.proc].sessions)

\* C22: a run never has more successful _save_post calls than max_posts,
\* never stands before a _save_post call with max_posts posts already
\* processed, and its own session's total_processed never exceeds max_posts
C22_TargetBound ==
    \A p \in Procs :
        /\ Cardinality(Succeeded(p)) <= max_posts
        /\ pc[p] = "save" =>
             /\ processed_count[p] < max_posts
             /\ Cardinality(Succeeded(p)) < max_posts
        /\ pc[p] \in InLoop \cup { "end", "log_completed", "finally" } =>
             /\ processed_count[p] <= max_posts
             /\ session_id[p] # None => OwnSession(p).total_processed <= max_posts

\* a run that ended with its target reached while the page still held a post
\* that is not processed
C22_Witness ==
    /\ pc[1] = "log_completed"
    /\ processed_count[1] = max_posts
    /\ OwnSession(1).total_processed = max_posts
    /\ \E k \in 1 .. page[1] : ~ is_processed(state[1], _extract_post_id(feed[k]))

\* C23: retry_on_error has slept once for every RetryableError that another
\* call of func followed, each time 2^attempt seconds, and not after the
\* last call of func, whether that call was the last allowed one or raised
\* a fatal error
C23_SleepBetweenAttempts ==
    /\ \A n \in DOMAIN retry.sleeps : retry.sleeps[n] = 2 ^ (n - 1)
    /\ Len(retry.sleeps) <= Len(retry.outcomes)
    /\ ( retry.pc \in { "try", "done" } /\ Len(retry.outcomes) > 0 )
         => Len(retry.sleeps) = Len(retry.outcomes) - 1

\* where run() stands, in the words of the orchestrator's state machine:
\* Starting up to the page being loaded, Running in _scrape_loop, Completing
\* from the loop's end, Aborting in the except clauses, each with its part
\* of the finally clause
Phase(p) ==
    IF pc[p] \in { "start", "launch" } THEN "Starting"
    ELSE IF pc[p] \in { "while", "for", "save", "mark", "fail", "scroll" }
    THEN "Running"
    ELSE IF pc[p] \in { "end", "log_completed" } THEN "Completing"
    ELSE IF pc[p] \in { "except_interrupt", "except_exception" } THEN "Aborting"
    ELSE IF pc[p] = "finally"
    THEN ( IF log[p].causes \subseteq { "completed" }
           THEN "Completing" ELSE "Aborting" )
    ELSE "Idle"

\* the process is killed: no statement of run() makes this step
Killed(p) == pc[p] # "idle" /\ pc'[p] = "idle" /\ "killed" \in log'[p].causes

Machine ==
    { << "Idle", "Starting" >>, << "Starting", "Running" >>,
      << "Running", "Completing" >>, << "Running", "Aborting" >>,
      << "Completing", "Idle" >>, << "Aborting", "Idle" >> }

\* C24 as stated: every change of phase a run makes is one of Idle ->
\* Starting -> Running -> (Completing | Aborting) -> Idle
C24_OnlyMachineTransitions ==
    [][ \A p \in Procs :
          ( ~ Killed(p) /\ Phase(p)' # Phase(p) )
             => << Phase(p), Phase(p)' >> \in Machine ]_vars

\* C24, amended: besides those transitions a run goes from Starting to
\* Aborting (the browser cannot be launched or the page not loaded, or Ctrl-C
\* arrives there) and from Completing to Aborting (Ctrl-C arrives there), and
\* makes no other
C24_MachineWithAbortEdges ==
    [][ \A p \in Procs :
          ( ~ Killed(p) /\ Phase(p)' # Phase(p) )
             => << Phase(p), Phase(p)' >> \in
                   Machine \cup { << "Starting", "Aborting" >>,
                                  << "Completing", "Aborting" >> } ]_vars

\* a run that failed to connect has gone from Starting through Aborting
C24_Witness ==
    /\ pc[1] = "finally"
    /\ log[1].causes = { "failed" }
    /\ log[1].batches = 0
    /\ Phase(1) = "Aborting"

C26_SkipChangesNothing ==
    [][ \A p \in Procs :
          ( /\ pc[p] = "for"
            /\ pc'[p] \in { "for", "save", "scroll" }
            /\ << pc'[p], idx'[p] >> # << pc[p], idx[p] >>
            /\ idx[p] <= page[p]
            /\ processed_count[p] < max_posts
            /\ _extract_post_id(feed[idx[p]]) \in Ids(state[p]) )
          => ( /\ pc'[p] = "for"
               /\ idx'[p] = idx[p] + 1
               /\ state'[p] = state[p]
               /\ state_file' = state_file
               /\ sink' = sink
               /\ processed_count'[p] = processed_count[p]
               /\ log'[p].calls = log[p].calls ) ]_vars

\* a later run came to a post an earlier run archived and went past it
C26_Witness ==
    \E i \in log[1].skipped :
        /\ runs = 2
        /\ i \in history_at_start[1]
        /\ sink[i] = 1
        /\ log[1].calls[i] = 0
        /\ state[1].total_all_time = Len(state[1].processed_post_ids)
        /\ OwnSession(1).total_processed = 0
        /\ OwnSession(1).total_failed = 0

\* C27: every _save_post call and every scroll_to_bottom call of a run
\* begins with a time.sleep made since the run's previous such call
C27_PacedPerOperation ==
    [][ \A p \in Procs :
          ( \/ ( pc[p] = "save" /\ log'[p].calls # log[p].calls )
            \/ ( pc[p] = "scroll" /\ pc'[p] \in { "while", "end" } ) )
          => ~ log[p].unslept ]_vars

\* C28: a run in which Facebook logged the browser out ends through the
\* except clause, with its own session ended as failed
C28_AuthExpiredFails ==
    \A p \in Procs :
        ( log[p].logged_out /\ pc[p] = "finally" )
            => /\ "failed" \in log[p].causes
               /\ session_id[p] # None => OwnSession(p).status = "failed"

C30_AtomicPersist ==
    [][ \A p \in Procs :
          ( Killed(p) /\ state_file.valid )
             => /\ state_file'.valid
                /\ \/ state_file' = state_file
                   \/ state_file'.exists ]_vars

\* C31: over a finite feed the k-th run, once started, comes to its end with
\* the process gone and the k-th session of the state file, the one this run
\* started, given an end time and a status other than running
C31_RunEndsFinalized ==
    \A k \in 1 .. MaxRuns :
        ( runs = k /\ pc[1] = "start" )
            ~> /\ runs = k
               /\ pc[1] = "idle"
               /\ Len(state_file.doc.sessions) >= k
               /\ state_file.doc.sessions[k].status # "running"
               /\ state_file.doc.sessions[k].end_time # None

\* C32: in memory and in the state file, a session has end_time None exactly
\* when its status is 'running'
C32_EndTimeIffEnded ==
    \A st \in { state[p] : p \in Procs } \cup { state_file.doc } :
        \A i \in DOMAIN st.sessions :
            ( st.sessions[i].end_time = None ) <=> ( st.sessions[i].status = "running" )

\* the file holds a session that was ended and a session that still runs
C32_Witness ==
    /\ last_call.op = "end_session"
    /\ \E i, j \in DOMAIN state_file.doc.sessions :
         /\ state_file.doc.sessions[i].status \in Statuses
         /\ state_file.doc.sessions[i].end_time # None
         /\ state_file.doc.sessions[j].status = "running"
         /\ state_file.doc.sessions[j].end_time = None

\* the process has started its session and has not yet called end_session
Driving(p) == pc[p] \in InLoop \cup { "end" }

\* the status of the session the code finds under a session id in the file
\* (the first session carrying the id), "none" when no session carries it
StatusInFile(f, sid) ==
    IF FirstMatch(f.doc.sessions, sid) = 0 THEN "none"
    ELSE f.doc.sessions[FirstMatch(f.doc.sessions, sid)].status

\* C33: when a process calls start_session while another process is driving
\* its session and the state file shows that session as running, the file
\* still shows it as running after the call, if it still holds it
C33_StartLeavesLiveSessions ==
    [][ \A q \in Procs : \A p \in Procs \ {q} :
          ( /\ pc[q] = "start" /\ pc'[q] = "launch"
            /\ Driving(p)
            /\ StatusInFile(state_file, session_id[p]) = "running"
            /\ StatusInFile(state_file', session_id[p]) # "none" )
             => StatusInFile(state_file', session_id[p]) = "running" ]_vars

\* C34: with two processes on one state file, a post id whose mark_processed
\* has returned and that is in the file stays in the file through every
\* later call that writes the file
C34_NoLostUpdate ==
    [][ state_file' # state_file
           => \A i \in marked \cap DurableIds : i \in DurableIds' ]_vars

\* C35: in memory and in the state file, total_all_time is the number of
\* processed records and the sum of total_processed over the sessions
C35_TotalsAgree ==
    \A st \in { state[p] : p \in Procs } \cup { state_file.doc } :
        /\ st.total_all_time = Len(st.processed_post_ids)
        /\ st.total_all_time = SumProcessed(st.sessions)

\* the post ids of the article elements the page has shown to the run
Offered(p) == { _extract_post_id(feed[k]) : k \in 1 .. page[p] }

\* C36: the total_failed of the session a run started never exceeds the
\* number of distinct post ids the page has offered to that run
C36_FailedOncePerItem ==
    \A p \in Procs :
        pc[p] \in InLoop \cup { "end", "log_completed" }
            => OwnSession(p).total_failed <= Cardinality(Offered(p))

\* C37: every post id in the processed history, in memory and in the state
\* file, is an id for which a _save_post call has returned True
C37_MarkedOnlyAfterArchive ==
    \A st \in { state[p] : p \in Procs } \cup { state_file.doc } :
        \A i \in Ids(st) : sink[i] > 0

\* a run recorded a post it archived, and a post whose _save_post returned
\* False is in no history
C37_Witness ==
    /\ DurableIds # {}
    /\ \E j \in Failed(1) :
         /\ sink[j] = 0
         /\ j \notin DurableIds
         /\ ~ is_processed(state[1], j)
    /\ pc[1] = "for"
    /\ last_call.op = "increment_failed"

\* the for loop of p has a post before it whose data is extracted and whose
\* duplicate check comes next
AtCheck(p) ==
    /\ pc[p] = "for"
    /\ idx[p] <= page[p]
    /\ ~ target_reached(processed_count[p], max_posts)

\* C38: for every post that comes to the duplicate check, is_duplicate (seen
\* set first, then the state file) and is_processed alone decide the same
C38_LayeredSameDecision ==
    \A p \in Procs :
        AtCheck(p) =>
            LET id == _extract_post_id(feed[idx[p]])
            IN  is_duplicate(p, id) = is_processed(state[p], id)

\* C38 as amended: the two checks decide the same for every post whose
\* _save_post has not returned False earlier in the run; a post whose
\* _save_post returned False and that is not recorded is skipped by
\* is_duplicate and processed again by is_processed alone
C38_LayeredDiffersOnlyOnFailed ==
    \A p \in Procs :
        AtCheck(p) =>
            LET id == _extract_post_id(feed[idx[p]])
            IN  /\ id \notin Failed(p)
                    => is_duplicate(p, id) = is_processed(state[p], id)
                /\ ( id \in Failed(p) /\ ~ is_processed(state[p], id) )
                    => is_duplicate(p, id)

\* a post whose _save_post returned False in the first batch comes to the
\* check again in the second
C38_Witness ==
    /\ AtCheck(1)
    /\ _extract_post_id(feed[idx[1]]) \in Failed(1)
    /\ is_duplicate(1, _extract_post_id(feed[idx[1]]))
    /\ ~ is_processed(state[1], _extract_post_id(feed[idx[1]]))
    /\ log[1].batches = 2

====
